---- MODULE Spec2Model ----
(***************************************************************************)
(* FTMQ <-> MQTT bridge (Raspberry_Pi/ftmq_bridge/ftmq_mqtt_bridge.py).    *)
(*                                                                         *)
(* The model follows class FTMQ_MQTT_Bridge: the serial framing parser     *)
(* (poll_FTMQ / parse_FTMQ), the table driven translation in both          *)
(* directions (on_message, the publish loop of parse_FTMQ) and the main    *)
(* thread of run().                                                        *)
(*                                                                         *)
(* Values.  A JSON / Python value is a tagged tuple:                       *)
(*   <<"int", hi, lo>>      the integer hi * 65536 + lo, lo in 0..65535    *)
(*                          (two 16 bit limbs: Python integers are         *)
(*                          unbounded, and 2^31 itself must be a value)    *)
(*   <<"float", s, m, e>>   the float (-1)^s * m * 2^e, m odd or m = e = 0 *)
(*   <<"inf", s>>, <<"nan">>                                               *)
(*   <<"list", items>>      a JSON array                                   *)
(*   <<"str", text>>        a JSON string                                  *)
(*   <<"obj", name, value>> a JSON object with the single key name         *)
(*   <<"unbound">>          a Python local that was never assigned         *)
(***************************************************************************)
EXTENDS Integers, Sequences, FiniteSets, TLC

\* ------------------------------------------------------------ constants

FTMQ_PKT_LEN == 5

HEADER_CHAR == 64

\* ------------------------------------------------------------ bounds

\* bytes the serial peer sends in one run of the free-stream specification
MaxStream == 7

\* broker messages delivered in one run
MaxMsgs == 2

\* on_connect callbacks (the first connect and reconnects) in one run
MaxConnects == 2

\* garbage bytes in front of the frame in the sync-recovery specification
MaxGarbage == 2

\* bytes, none the sync byte, between the two sync bytes of a header
MaxGap == 1

\* bytes, none the sync byte, that follow the two sync bytes in the
\* specification of the frames' own sync bytes
MaxPlain == 10

\* ------------------------------------------------------------ values

Unbound == <<"unbound">>

PyInt(hi, lo) == <<"int", hi, lo>>

IsInt(v) == v[1] = "int"

IsFloat(v) == v[1] = "float"

IsList(v) == v[1] = "list"

Pow2(n) == 2 ^ n

RECURSIVE BitLen(_)
\* number of bits of the natural n (0 for 0)
BitLen(n) == IF n = 0 THEN 0 ELSE 1 + BitLen(n \div 2)

RECURSIVE Normalize(_, _, _)
\* the float (-1)^s * m * 2^e with the mantissa made odd
Normalize(s, m, e) ==
    IF m = 0 THEN <<"float", s, 0, 0>>
    ELSE IF m % 2 = 0 THEN Normalize(s, m \div 2, e + 1)
    ELSE <<"float", s, m, e>>

\* the result of a call that may raise
Ok(bytes) == [raised |-> FALSE, bytes |-> bytes]

Raise == [raised |-> TRUE, bytes |-> <<>>]

\* ------------------------------------------------------------ struct

\* struct.pack('<i', value): the 4 bytes of the little-endian two's complement
\* form; struct.error when value is no integer or is outside [-2^31, 2^31-1]
struct_pack_i(value) ==
    IF ~IsInt(value) THEN Raise
    ELSE IF value[2] < -32768 \/ value[2] > 32767 THEN Raise
    ELSE Ok(<< value[3] % 256, value[3] \div 256,
               value[2] % 256, (value[2] % 65536) \div 256 >>)

\* struct.unpack('<I', value): the 4 bytes read as an unsigned integer
struct_unpack_i_unsigned(value) ==
    PyInt(value[4] * 256 + value[3], value[2] * 256 + value[1])

\* struct.unpack('<i', value): the little-endian signed 32 bit integer
struct_unpack_i(value) ==
    LET hiU == value[4] * 256 + value[3]
    IN  PyInt(IF hiU >= 32768 THEN hiU - 65536 ELSE hiU,
              value[2] * 256 + value[1])

\* q, the quotient of a magnitude by 2^shift, rounded to nearest, ties to
\* even; r is the remainder (the C cast double -> float of PyFloat_Pack4)
RoundHalfEven(q, r, shift) ==
    IF shift = 0 THEN q
    ELSE IF r > Pow2(shift - 1) \/ (r = Pow2(shift - 1) /\ q % 2 = 1)
         THEN q + 1 ELSE q

\* the magnitude M * 2^e (M < 2^31) rounded to 24 significant bits
FloatRound(M, e) ==
    LET bl == BitLen(M)
        shift == bl - 24
    IN  IF bl <= 24 THEN <<M, e>>
        ELSE <<RoundHalfEven(M \div Pow2(shift), M % Pow2(shift), shift),
               e + shift>>

\* the magnitude of the integer hi * 65536 + lo rounded to 24 significant
\* bits (int -> double is exact below 2^53, double -> float rounds)
IntRound(hi, lo) ==
    LET H == IF hi >= 0 THEN hi ELSE IF lo = 0 THEN -hi ELSE -hi - 1
        L == IF hi >= 0 \/ lo = 0 THEN lo ELSE 65536 - lo
        bl == IF H > 0 THEN 16 + BitLen(H) ELSE BitLen(L)
        shift == bl - 24
    IN  IF bl <= 24 THEN <<H * 65536 + L, 0>>
        ELSE <<RoundHalfEven(H * Pow2(16 - shift) + L \div Pow2(shift),
                             L % Pow2(shift), shift),
               shift>>

\* the 4 little-endian bytes of the IEEE-754 word with sign s and the low
\* 31 bits W
FloatBytes(s, W) ==
    << W % 256, (W \div 256) % 256, (W \div 65536) % 256,
       W \div 16777216 + 128 * s >>

\* the float32 encoding of (-1)^s * M * 2^e, M < 2^31, rounded to nearest
\* (ties to even); OverflowError when the value is too large for a float32
PackFloat(s, M, e) ==
    LET sub == -(e + 149)
        r == FloatRound(M, e)
        bl == BitLen(r[1])
        E == r[2] + bl - 1 + 127
    IN  IF M = 0 THEN Ok(FloatBytes(s, 0))
        ELSE IF e + BitLen(M) - 1 + 127 <= 0
        THEN \* below the normal range: a multiple of 2^-149
             IF sub <= 0 THEN Ok(FloatBytes(s, M * Pow2(-sub)))
             ELSE IF sub >= 31
                  THEN Ok(FloatBytes(s, IF sub = 31 /\ M > Pow2(30) THEN 1 ELSE 0))
             ELSE Ok(FloatBytes(s, RoundHalfEven(M \div Pow2(sub), M % Pow2(sub), sub)))
        ELSE IF E >= 255 THEN Raise
        ELSE Ok(FloatBytes(s, E * 8388608
                    + (IF bl <= 24 THEN (r[1] - Pow2(bl - 1)) * Pow2(24 - bl)
                                   ELSE 0)))

\* struct.pack('<f', value): an integer or a float is converted to float32;
\* struct.error for any other value, OverflowError when it does not fit
struct_pack_f(value) ==
    IF IsInt(value)
    THEN LET r == IntRound(value[2], value[3])
         IN  PackFloat(IF value[2] < 0 THEN 1 ELSE 0, r[1], r[2])
    ELSE IF IsFloat(value)
    THEN PackFloat(value[2], value[3], value[4])
    ELSE IF value[1] = "inf" THEN Ok(FloatBytes(value[2], 255 * 8388608))
    ELSE IF value[1] = "nan" THEN Ok(FloatBytes(0, 255 * 8388608 + 4194304))
    ELSE Raise

\* struct.unpack('<f', value): the little-endian IEEE-754 32 bit float
struct_unpack_f(value) ==
    LET s == value[4] \div 128
        E == (value[4] % 128) * 2 + value[3] \div 128
        F == (value[3] % 128) * 65536 + value[2] * 256 + value[1]
    IN  IF E = 255 THEN (IF F = 0 THEN <<"inf", s>> ELSE <<"nan">>)
        ELSE IF E = 0 THEN Normalize(s, F, -149)
        ELSE Normalize(s, 8388608 + F, E - 150)

\* bytearray item assignment data[i] = v: v must be an integer in 0..255
IsByte(v) == IsInt(v) /\ v[2] = 0 /\ v[3] <= 255

\* lines 69-73: data = bytearray(4); data[i] = value[i] for i in 0..3
\* (IndexError / TypeError / ValueError when value has no 4 byte items)
pack_array(value) ==
    IF ~IsList(value) THEN Raise
    ELSE IF Len(value[2]) < 4 THEN Raise
    ELSE IF \E i \in 1..4 : ~IsByte(value[2][i]) THEN Raise
    ELSE Ok(<< value[2][1][3], value[2][2][3], value[2][3][3], value[2][4][3] >>)

\* lines 112-117: the 4 raw bytes as a list of integers 0..255
unpack_array(value) ==
    <<"list", << PyInt(0, value[1]), PyInt(0, value[2]),
                 PyInt(0, value[3]), PyInt(0, value[4]) >> >>

\* ------------------------------------------------------------ configuration

\* one item of topics_lookup['lookup_table'].items(): the key (the topic) and
\* the fields id, type, name of its value
Entry(topic, id, type, name) ==
    [topic |-> topic, id |-> id, type |-> type, name |-> name]

\* the lookup tables of the model, each in the order .items() yields it (the
\* topics, keys of a dict, are distinct): distinct identifiers; two entries
\* sharing an identifier; a type that is none of int32 / float / array, in
\* front of and behind another entry of the same identifier
LookupTables ==
    { << Entry("a", 1, "int32", "x"), Entry("b", 64, "float", "y") >>,
      << Entry("a", 1, "int32", "x"), Entry("b", 1, "array", "y") >>,
      << Entry("a", 64, "string", "x"), Entry("b", 64, "array", "y") >>,
      << Entry("a", 1, "array", "x"), Entry("b", 1, "string", "y") >> }

\* topics_lookup['mqtt_subscriptions']: the table's topics and one topic that
\* is no key of the table
Subscriptions == << "a", "b", "zz" >>

\* the byte values the serial peer sends
SerialBytes == {0, 1, HEADER_CHAR}

VARIABLES
    topics_lookup,   \* self.topics_lookup, the parsed yaml document
    read_buffer,     \* self.read_buffer
    waiting_header,  \* self.waiting_header
    pc,              \* where the main thread is in run()
    client_thread,   \* the thread of client.loop_start()
    data,            \* poll_FTMQ's local data: the bytes still to parse
    serial_in,       \* bytes received on the port and not read yet (in_waiting)
    serial_out,      \* every byte written to the port, in order
    subscribed,      \* topics passed to client.subscribe
    published,       \* every client.publish(topic, payload), in order
    frames,          \* every frame assembled (line 102's print), in order
    stream,          \* every byte passed to parse_FTMQ, in order
    bytewise,        \* no serial.read has returned more than one byte so far
    msgs,            \* number of 'on msg' prints (on_message calls)
    errors,          \* the messages (by number) whose handling printed
                     \* 'Unexpected error:'
    connects         \* number of 'Connected with result code' prints

vars == << topics_lookup, read_buffer, waiting_header, pc, client_thread, data,
           serial_in, serial_out, subscribed, published, frames, stream,
           bytewise, msgs, errors, connects >>

lookup_table == topics_lookup.lookup_table

\* __init__ (lines 43-49), for each configuration main() may load
Init ==
    /\ topics_lookup \in [mqtt_subscriptions : {Subscriptions},
                          lookup_table : LookupTables]
    /\ read_buffer = <<>>
    /\ waiting_header = 0
    /\ pc = "new"
    /\ client_thread = "none"
    /\ data = <<>>
    /\ serial_in = <<>>
    /\ serial_out = <<>>
    /\ subscribed = {}
    /\ published = <<>>
    /\ frames = <<>>
    /\ stream = <<>>
    /\ bytewise = TRUE
    /\ msgs = 0
    /\ errors = {}
    /\ connects = 0

\* ------------------------------------------------------------ serial -> broker

\* lines 107-117: the value bound to the local data by the branch of type;
\* with no branch taken data keeps what it held (d), Unbound on the first
\* matching entry
decode(type, value, d) ==
    IF type = "int32" THEN struct_unpack_i(value)
    ELSE IF type = "float" THEN struct_unpack_f(value)
    ELSE IF type = "array" THEN unpack_array(value)
    ELSE d

RECURSIVE publish_loop(_, _, _, _)
\* lines 105-120: the loop over the table's items for the frame (id, value);
\* d is the local data on entry.  pubs: the publishes made, in order; raised:
\* line 118 read the unbound local (UnboundLocalError), which ends the loop
publish_loop(items, id, value, d) ==
    IF items = <<>> THEN [pubs |-> <<>>, raised |-> FALSE]
    ELSE IF Head(items).id # id THEN publish_loop(Tail(items), id, value, d)
    ELSE LET t == Head(items)
             decoded == decode(t.type, value, d)
             obj == <<"obj", t.name, decoded>>
             rest == publish_loop(Tail(items), id, value, obj)
         IN  IF decoded[1] = "unbound" THEN [pubs |-> <<>>, raised |-> TRUE]
             ELSE [pubs |-> << [topic |-> t.topic, payload |-> obj] >> \o rest.pubs,
                   raised |-> rest.raised]

\* the parser's part of the state, as parse_FTMQ reads and writes it
ParserState(wh, rb, fr, pub, raised) ==
    [waiting_header |-> wh, read_buffer |-> rb, frames |-> fr,
     published |-> pub, raised |-> raised]

\* parse_FTMQ with line 122 missing: the sync bytes of one frame serve
\* the next one too
parse_FTMQ_keep_header(st, byte) ==
    IF st.waiting_header < 2
    THEN IF byte = HEADER_CHAR
         THEN [st EXCEPT !.waiting_header = @ + 1]
         ELSE st
    ELSE LET buf == Append(st.read_buffer, byte)
         IN  IF Len(buf) = FTMQ_PKT_LEN
             THEN LET id == buf[1]
                      value == SubSeq(buf, 2, Len(buf))
                      loop == publish_loop(lookup_table, id, value, Unbound)
                  IN  ParserState(st.waiting_header,
                                  IF loop.raised THEN buf ELSE <<>>,
                                  Append(st.frames, [id |-> id, payload |-> value]),
                                  st.published \o loop.pubs,
                                  loop.raised)
             ELSE [st EXCEPT !.read_buffer = buf]

\* parse_FTMQ looking for the sync byte in every state: a sync byte among
\* the 5 bytes of a frame starts the frame over
parse_FTMQ_resync(st, byte) ==
    IF byte = HEADER_CHAR
    THEN [st EXCEPT !.waiting_header = IF @ < 2 THEN @ + 1 ELSE 1,
                    !.read_buffer = <<>>]
    ELSE IF st.waiting_header < 2 THEN st
    ELSE LET buf == Append(st.read_buffer, byte)
         IN  IF Len(buf) = FTMQ_PKT_LEN
             THEN LET id == buf[1]
                      value == SubSeq(buf, 2, Len(buf))
                      loop == publish_loop(lookup_table, id, value, Unbound)
                  IN  ParserState(IF loop.raised THEN st.waiting_header ELSE 0,
                                  IF loop.raised THEN buf ELSE <<>>,
                                  Append(st.frames, [id |-> id, payload |-> value]),
                                  st.published \o loop.pubs,
                                  loop.raised)
             ELSE [st EXCEPT !.read_buffer = buf]

\* parse_FTMQ with the cleanup of lines 121-122 indented into the if of line
\* 106: a frame of unknown identifier is never consumed
parse_FTMQ_cleanup_on_match(st, byte) ==
    IF st.waiting_header < 2
    THEN IF byte = HEADER_CHAR
         THEN [st EXCEPT !.waiting_header = @ + 1]
         ELSE st
    ELSE LET buf == Append(st.read_buffer, byte)
         IN  IF Len(buf) = FTMQ_PKT_LEN
             THEN LET id == buf[1]
                      value == SubSeq(buf, 2, Len(buf))
                      loop == publish_loop(lookup_table, id, value, Unbound)
                      kept == loop.raised \/ loop.pubs = <<>>
                  IN  ParserState(IF kept THEN st.waiting_header ELSE 0,
                                  IF kept THEN buf ELSE <<>>,
                                  Append(st.frames, [id |-> id, payload |-> value]),
                                  st.published \o loop.pubs,
                                  loop.raised)
             ELSE [st EXCEPT !.read_buffer = buf]

\* parse_FTMQ with line 121 missing: the 5 bytes of a frame stay in
\* read_buffer when the frame is done
parse_FTMQ_no_cleanup(st, byte) ==
    IF st.waiting_header < 2
    THEN IF byte = HEADER_CHAR
         THEN [st EXCEPT !.waiting_header = @ + 1]
         ELSE st
    ELSE LET buf == Append(st.read_buffer, byte)
         IN  IF Len(buf) = FTMQ_PKT_LEN
             THEN LET id == buf[1]
                      value == SubSeq(buf, 2, Len(buf))
                      loop == publish_loop(lookup_table, id, value, Unbound)
                  IN  ParserState(IF loop.raised THEN st.waiting_header ELSE 0,
                                  buf,
                                  Append(st.frames, [id |-> id, payload |-> value]),
                                  st.published \o loop.pubs,
                                  loop.raised)
             ELSE [st EXCEPT !.read_buffer = buf]

\* parse_FTMQ with line 122 resetting waiting_header to 1: a frame leaves one
\* sync byte to the next one
parse_FTMQ_half_reset(st, byte) ==
    IF st.waiting_header < 2
    THEN IF byte = HEADER_CHAR
         THEN [st EXCEPT !.waiting_header = @ + 1]
         ELSE st
    ELSE LET buf == Append(st.read_buffer, byte)
         IN  IF Len(buf) = FTMQ_PKT_LEN
             THEN LET id == buf[1]
                      value == SubSeq(buf, 2, Len(buf))
                      loop == publish_loop(lookup_table, id, value, Unbound)
                  IN  ParserState(IF loop.raised THEN st.waiting_header ELSE 1,
                                  IF loop.raised THEN buf ELSE <<>>,
                                  Append(st.frames, [id |-> id, payload |-> value]),
                                  st.published \o loop.pubs,
                                  loop.raised)
             ELSE [st EXCEPT !.read_buffer = buf]

\* parse_FTMQ with an else at line 97 that starts the header over: the two
\* sync bytes have to be adjacent
parse_FTMQ_reset_on_gap(st, byte) ==
    IF st.waiting_header < 2
    THEN IF byte = HEADER_CHAR
         THEN [st EXCEPT !.waiting_header = @ + 1]
         ELSE [st EXCEPT !.waiting_header = 0]
    ELSE LET buf == Append(st.read_buffer, byte)
         IN  IF Len(buf) = FTMQ_PKT_LEN
             THEN LET id == buf[1]
                      value == SubSeq(buf, 2, Len(buf))
                      loop == publish_loop(lookup_table, id, value, Unbound)
                  IN  ParserState(IF loop.raised THEN st.waiting_header ELSE 0,
                                  IF loop.raised THEN buf ELSE <<>>,
                                  Append(st.frames, [id |-> id, payload |-> value]),
                                  st.published \o loop.pubs,
                                  loop.raised)
             ELSE [st EXCEPT !.read_buffer = buf]

\* parse_FTMQ (lines 95-122) on one byte.  An exception raised in the loop
\* leaves before the cleanup of lines 121-122.
parse_FTMQ(st, byte) ==
    IF st.waiting_header < 2
    THEN IF byte = HEADER_CHAR
         THEN [st EXCEPT !.waiting_header = @ + 1]
         ELSE st
    ELSE LET buf == Append(st.read_buffer, byte)
         IN  IF Len(buf) = FTMQ_PKT_LEN
             THEN LET id == buf[1]
                      value == SubSeq(buf, 2, Len(buf))
                      loop == publish_loop(lookup_table, id, value, Unbound)
                  IN  ParserState(IF loop.raised THEN st.waiting_header ELSE 0,
                                  IF loop.raised THEN buf ELSE <<>>,
                                  Append(st.frames, [id |-> id, payload |-> value]),
                                  st.published \o loop.pubs,
                                  loop.raised)
             ELSE [st EXCEPT !.read_buffer = buf]

\* line 91: data = self.serial.read(self.serial.in_waiting)
poll_read ==
    /\ pc = "poll"
    /\ data' = serial_in
    /\ serial_in' = <<>>
    /\ bytewise' = (bytewise /\ Len(serial_in) <= 1)
    /\ pc' = "parse"
    /\ UNCHANGED << topics_lookup, read_buffer, waiting_header, client_thread,
                    serial_out, subscribed, published, frames, stream, msgs,
                    errors, connects >>

\* lines 92-93: one turn of the for loop, parse_FTMQ(byte).  run() catches
\* nothing: an exception leaving parse_FTMQ ends the main thread, and with it
\* the process (the client's thread is a daemon thread)
parse_byte ==
    /\ pc = "parse"
    /\ data # <<>>
    /\ LET st == parse_FTMQ(ParserState(waiting_header, read_buffer, frames,
                                        published, FALSE), Head(data))
       IN  /\ waiting_header' = st.waiting_header
           /\ read_buffer' = st.read_buffer
           /\ frames' = st.frames
           /\ published' = st.published
           /\ pc' = IF st.raised THEN "crashed" ELSE "parse"
    /\ stream' = Append(stream, Head(data))
    /\ data' = Tail(data)
    /\ UNCHANGED << topics_lookup, client_thread, serial_in, serial_out,
                    subscribed, bytewise, msgs, errors, connects >>

\* lines 140-142: the for loop is over; sleep, then poll again
poll_sleep ==
    /\ pc = "parse"
    /\ data = <<>>
    /\ pc' = "poll"
    /\ UNCHANGED << topics_lookup, read_buffer, waiting_header, client_thread,
                    data, serial_in, serial_out, subscribed, published, frames,
                    stream, bytewise, msgs, errors, connects >>

RECURSIVE poll_all(_, _)
\* lines 92-93 as one call: parse_FTMQ on each byte of bytes in turn, up to
\* the first one that raises
poll_all(st, bytes) ==
    IF bytes = <<>> \/ st.raised THEN st
    ELSE poll_all(parse_FTMQ(st, Head(bytes)), Tail(bytes))

\* the parser after __init__, nothing assembled or published yet
InitialParser == ParserState(0, <<>>, <<>>, <<>>, FALSE)

\* ------------------------------------------------------------ broker -> serial

\* json.loads(msg.payload.decode('utf-8'))[name] (line 63).  A payload is
\* <<"malformed">> (no JSON text), a JSON object with one key
\* <<"obj", key, value>>, or another JSON value, which has no string keys.
json_get(payload, name) ==
    IF payload[1] = "obj" /\ payload[2] = name
    THEN [raised |-> FALSE, value |-> payload[3]]
    ELSE [raised |-> TRUE, value |-> Unbound]

\* lines 64-73: the local data after the if / elif chain; bytes = <<>> with
\* raised = FALSE stands for no branch taken (data stays unbound)
encode(type, value) ==
    IF type = "int32" THEN struct_pack_i(value)
    ELSE IF type = "float" THEN struct_pack_f(value)
    ELSE IF type = "array" THEN pack_array(value)
    ELSE Ok(<<>>)

\* translate with line 75 missing: one sync byte in front of the identifier
translate_one_header(t, payload) ==
    LET v == json_get(payload, t.name)
        d == encode(t.type, v.value)
    IN  IF v.raised \/ d.raised THEN [bytes |-> <<>>, error |-> TRUE]
        ELSE IF d.bytes = <<>>
             THEN [bytes |-> << HEADER_CHAR, t.id >>, error |-> TRUE]
        ELSE [bytes |-> << HEADER_CHAR, t.id >> \o d.bytes, error |-> FALSE]

\* translate with the writes of lines 74-76 moved in front of the
\* conversion of lines 64-73: a value that does not convert leaves the sync
\* bytes and the identifier on the wire
translate_write_first(t, payload) ==
    LET v == json_get(payload, t.name)
        d == encode(t.type, v.value)
    IN  IF v.raised THEN [bytes |-> <<>>, error |-> TRUE]
        ELSE IF d.raised \/ d.bytes = <<>>
             THEN [bytes |-> << HEADER_CHAR, HEADER_CHAR, t.id >>, error |-> TRUE]
        ELSE [bytes |-> << HEADER_CHAR, HEADER_CHAR, t.id >> \o d.bytes,
              error |-> FALSE]

\* lines 61-80 for the matching item t: the bytes written to the port, and
\* whether the except clause printed.  The three writes of lines 74-76 come
\* before line 77 evaluates data, so an entry of unknown type has them done
\* when the UnboundLocalError is caught.
translate(t, payload) ==
    LET v == json_get(payload, t.name)
        d == encode(t.type, v.value)
    IN  IF v.raised \/ d.raised THEN [bytes |-> <<>>, error |-> TRUE]
        ELSE IF d.bytes = <<>>
             THEN [bytes |-> << HEADER_CHAR, HEADER_CHAR, t.id >>, error |-> TRUE]
        ELSE [bytes |-> << HEADER_CHAR, HEADER_CHAR, t.id >> \o d.bytes,
              error |-> FALSE]

\* message_loop with the comparison of line 60 missing: the first item of the
\* table serves every topic
message_loop_any_topic(items, topic, payload) ==
    IF items = <<>> THEN [bytes |-> <<>>, error |-> FALSE]
    ELSE translate(Head(items), payload)

RECURSIVE message_loop(_, _, _)
\* lines 59-80: the loop over the table's items, left at the first item
\* whose key is the message's topic
message_loop(items, topic, payload) ==
    IF items = <<>> THEN [bytes |-> <<>>, error |-> FALSE]
    ELSE IF Head(items).topic = topic THEN translate(Head(items), payload)
    ELSE message_loop(Tail(items), topic, payload)

\* the callbacks run on the client's thread, while the process lives
CallbacksRun == client_thread = "running" /\ pc # "crashed"

\* on_connect that sends the startup frame again on every connect
on_connect_restart ==
    /\ CallbacksRun
    /\ connects < MaxConnects
    /\ connects' = connects + 1
    /\ subscribed' = subscribed \cup
           { topics_lookup.mqtt_subscriptions[i] :
                 i \in 1..Len(topics_lookup.mqtt_subscriptions) }
    /\ serial_out' = serial_out \o << HEADER_CHAR, HEADER_CHAR, 0, 0, 0, 0, 0 >>
    /\ UNCHANGED << topics_lookup, read_buffer, waiting_header, pc,
                    client_thread, data, serial_in, published,
                    frames, stream, bytewise, msgs, errors >>

\* on_connect (lines 51-54)
on_connect ==
    /\ CallbacksRun
    /\ connects < MaxConnects
    /\ connects' = connects + 1
    /\ subscribed' = subscribed \cup
           { topics_lookup.mqtt_subscriptions[i] :
                 i \in 1..Len(topics_lookup.mqtt_subscriptions) }
    /\ UNCHANGED << topics_lookup, read_buffer, waiting_header, pc,
                    client_thread, data, serial_in, serial_out, published,
                    frames, stream, bytewise, msgs, errors >>

\* on_message that restarts the parser before it handles the message
on_message_reset_parser(topic, payload) ==
    /\ CallbacksRun
    /\ topic \in subscribed
    /\ msgs < MaxMsgs
    /\ msgs' = msgs + 1
    /\ read_buffer' = <<>>
    /\ waiting_header' = 0
    /\ LET r == message_loop(lookup_table, topic, payload)
       IN  /\ serial_out' = serial_out \o r.bytes
           /\ errors' = IF r.error THEN errors \cup {msgs + 1} ELSE errors
    /\ UNCHANGED << topics_lookup, pc, client_thread, data, serial_in,
                    subscribed, published, frames, stream, bytewise, connects >>

\* on_message (lines 56-80) for a message of a subscribed topic
on_message(topic, payload) ==
    /\ CallbacksRun
    /\ topic \in subscribed
    /\ msgs < MaxMsgs
    /\ msgs' = msgs + 1
    /\ LET r == message_loop(lookup_table, topic, payload)
       IN  /\ serial_out' = serial_out \o r.bytes
           /\ errors' = IF r.error THEN errors \cup {msgs + 1} ELSE errors
    /\ UNCHANGED << topics_lookup, read_buffer, waiting_header, pc,
                    client_thread, data, serial_in, subscribed, published,
                    frames, stream, bytewise, connects >>

\* ------------------------------------------------------------ run

\* start_FTMQ (lines 82-87): the bytes it writes
start_FTMQ == << HEADER_CHAR, HEADER_CHAR, 0 >> \o struct_pack_i(PyInt(0, 0)).bytes

\* run, lines 126-127: open the port, write the startup frame
run_open ==
    /\ pc = "new"
    /\ serial_out' = serial_out \o start_FTMQ
    /\ pc' = "opened"
    /\ UNCHANGED << topics_lookup, read_buffer, waiting_header, client_thread,
                    data, serial_in, subscribed, published, frames, stream,
                    bytewise, msgs, errors, connects >>

\* run, lines 129-139: create and connect the client, start its thread
run_connect ==
    /\ pc = "opened"
    /\ client_thread' = "running"
    /\ pc' = "poll"
    /\ UNCHANGED << topics_lookup, read_buffer, waiting_header, data, serial_in,
                    serial_out, subscribed, published, frames, stream, bytewise,
                    msgs, errors, connects >>

\* ------------------------------------------------------------ environment

\* every byte the serial peer has sent since the port was opened
Sent == stream \o data \o serial_in

\* the serial peer sends the byte b: it waits in the port's input buffer
peer_send(b) ==
    /\ pc \in {"opened", "poll", "parse"}
    /\ serial_in' = Append(serial_in, b)
    /\ UNCHANGED << topics_lookup, read_buffer, waiting_header, pc,
                    client_thread, data, serial_out, subscribed, published,
                    frames, stream, bytewise, msgs, errors, connects >>

\* a valid frame on the wire
Frame(id, payload) == << HEADER_CHAR, HEADER_CHAR, id >> \o payload

IsPrefix(s, t) == Len(s) <= Len(t) /\ SubSeq(t, 1, Len(s)) = s

\* s is the beginning of g garbage bytes (none the sync byte) followed by
\* one valid frame
SyncPrefix(s, g) ==
    /\ Len(s) <= g + 7
    /\ \A i \in 1..Len(s) :
           /\ i <= g => s[i] # HEADER_CHAR
           /\ i \in {g + 1, g + 2} => s[i] = HEADER_CHAR

\* any bytes, MaxStream of them at most
peer_any ==
    \E b \in SerialBytes : Len(Sent) < MaxStream /\ peer_send(b)

\* garbage, MaxGarbage bytes at most, then one valid frame
peer_sync ==
    \E b \in SerialBytes :
        /\ \E g \in 0..MaxGarbage : SyncPrefix(Append(Sent, b), g)
        /\ peer_send(b)

\* the payloads of the frames sent back to back
BackToBackPayloads == { <<0, 0, 0, 0>>, <<HEADER_CHAR, HEADER_CHAR, 1, 0>> }

\* s is the beginning of two valid frames back to back
TwoFramePrefix(s) ==
    /\ Len(s) <= 14
    /\ \A i \in 1..Len(s) : i \in {1, 2, 8, 9} => s[i] = HEADER_CHAR
    /\ \E p1, p2 \in BackToBackPayloads :
           \A i \in 1..Len(s) : /\ i \in 4..7 => s[i] = p1[i - 3]
                                /\ i \in 11..14 => s[i] = p2[i - 10]

\* two valid frames back to back
peer_two_frames ==
    \E b \in SerialBytes : TwoFramePrefix(Append(Sent, b)) /\ peer_send(b)

\* ------------------------------------------------------------ specifications

\* the values of the broker messages
MsgValues ==
    { PyInt(0, 1), PyInt(-1, 65535), PyInt(32767, 65535),
      PyInt(-32768, 0), PyInt(32768, 0), PyInt(-32769, 65535),
      <<"float", 0, 7, -1>>, <<"str", "abcd">>,
      <<"list", << PyInt(0, 1), PyInt(0, 2), PyInt(0, 3), PyInt(0, 4) >> >>,
      <<"list", << PyInt(0, 64), PyInt(0, 64), PyInt(0, 0), PyInt(0, 255) >> >>,
      <<"list", << PyInt(0, 1), PyInt(0, 2), PyInt(0, 3) >> >>,
      <<"list", << PyInt(0, 1), PyInt(0, 2), PyInt(0, 3), PyInt(0, 256) >> >>,
      <<"list", << PyInt(0, 1), PyInt(0, 2), PyInt(0, 3), PyInt(0, 4),
                   PyInt(0, 5) >> >> }

MsgTopics == { "a", "b", "zz" }

\* the payloads of the broker messages: no JSON text, a JSON array, and the
\* objects with one key
MsgPayloads ==
    { <<"malformed">>, <<"list", <<>> >> }
    \cup { <<"obj", n, v>> : n \in {"x", "y"}, v \in MsgValues }

broker_message ==
    \E topic \in MsgTopics : \E payload \in MsgPayloads : on_message(topic, payload)

\* the main thread and the serial peer
NextSerial ==
    \/ run_open
    \/ run_connect
    \/ poll_read
    \/ parse_byte
    \/ poll_sleep
    \/ peer_any

SpecSerial == Init /\ [][NextSerial]_vars

NextSync ==
    \/ run_open
    \/ run_connect
    \/ poll_read
    \/ parse_byte
    \/ poll_sleep
    \/ peer_sync

SpecSync == Init /\ [][NextSync]_vars

NextPartial ==
    \/ run_open
    \/ run_connect
    \/ poll_read
    \/ parse_byte
    \/ poll_sleep
    \/ peer_two_frames

SpecPartial == Init /\ [][NextPartial]_vars

\* SpecPartial with a main thread that is scheduled: each step of run() that
\* can be taken is taken in the end (time.sleep returns, serial.read returns)
FairPartial ==
    /\ SpecPartial
    /\ WF_vars(run_open)
    /\ WF_vars(run_connect)
    /\ WF_vars(poll_read)
    /\ WF_vars(parse_byte)
    /\ WF_vars(poll_sleep)

\* the main thread up to its loop, and the client's thread
NextBroker ==
    \/ run_open
    \/ run_connect
    \/ on_connect
    \/ broker_message

SpecBroker == Init /\ [][NextBroker]_vars

\* s is the beginning of two sync bytes followed by MaxPlain bytes that are
\* not the sync byte: 5 bytes 0 or 1, then zeros
PlainPrefix(s) ==
    /\ Len(s) <= 2 + MaxPlain
    /\ \A i \in 1..Len(s) : (i \in {1, 2}) => (s[i] = HEADER_CHAR)
    /\ \A i \in 1..Len(s) : (i \in 3..7) => (s[i] \in {0, 1})
    /\ \A i \in 1..Len(s) : (i > 7) => (s[i] = 0)

\* two sync bytes and then none, or two valid frames back to back
peer_reuse ==
    \E b \in SerialBytes :
        /\ PlainPrefix(Append(Sent, b)) \/ TwoFramePrefix(Append(Sent, b))
        /\ peer_send(b)

NextReuse ==
    \/ run_open
    \/ run_connect
    \/ poll_read
    \/ parse_byte
    \/ poll_sleep
    \/ peer_reuse

SpecReuse == Init /\ [][NextReuse]_vars

\* s is the beginning of g0 bytes 0 or 1, a sync byte, g1 bytes 0 or 1, a
\* sync byte, an identifier and a payload of zeros
GapPrefix(s, g0, g1) ==
    /\ Len(s) <= g0 + g1 + 7
    /\ \A i \in 1..Len(s) :
           (i \in {g0 + 1, g0 + g1 + 2}) => (s[i] = HEADER_CHAR)
    /\ \A i \in 1..Len(s) :
           (i <= g0 + g1 + 2 /\ i \notin {g0 + 1, g0 + g1 + 2}) => (s[i] \in {0, 1})
    /\ \A i \in 1..Len(s) : (i > g0 + g1 + 3) => (s[i] = 0)

\* a frame whose two sync bytes have at most one other byte in front and
\* MaxGap in between
peer_gap ==
    \E b \in SerialBytes :
        /\ \E g0 \in 0..1 : \E g1 \in 0..MaxGap :
               GapPrefix(Append(Sent, b), g0, g1)
        /\ peer_send(b)

NextGap ==
    \/ run_open
    \/ run_connect
    \/ poll_read
    \/ parse_byte
    \/ poll_sleep
    \/ peer_gap

SpecGap == Init /\ [][NextGap]_vars

\* s is the beginning of one valid frame of payload zero
OneFramePrefix(s) ==
    /\ Len(s) <= 7
    /\ \A i \in 1..Len(s) : (i \in {1, 2}) => (s[i] = HEADER_CHAR)
    /\ \A i \in 1..Len(s) : (i \in 4..7) => (s[i] = 0)

\* the main thread, the client's thread and a serial peer that sends one
\* valid frame
peer_one_frame ==
    \E b \in SerialBytes : OneFramePrefix(Append(Sent, b)) /\ peer_send(b)

\* the topics of the broker messages when both threads run: a key of the
\* table and a topic that is none
FewTopics == { "a", "zz" }

\* the payloads of the broker messages when both threads run: no JSON text,
\* an integer, a list
FewPayloads ==
    { <<"malformed">>,
      <<"obj", "x", PyInt(0, 1)>>,
      <<"obj", "x", <<"list", << PyInt(0, 1), PyInt(0, 2), PyInt(0, 3),
                                 PyInt(0, 4) >> >> >> }

broker_few ==
    \E topic \in FewTopics : \E payload \in FewPayloads : on_message(topic, payload)

\* the integers of the broker messages in the int32 round trip: 0, 1, -1,
\* 256, 0x01020304, 0x40404040, 2^31 - 1, -2^31 and, out of the range, 2^31
Int32Values ==
    { PyInt(0, 0), PyInt(0, 1), PyInt(-1, 65535), PyInt(0, 256),
      PyInt(258, 772), PyInt(16448, 16448), PyInt(32767, 65535),
      PyInt(-32768, 0), PyInt(32768, 0) }

\* __init__ with a table that has an entry of type int32 (topic a, id 1)
InitInt32 ==
    /\ Init
    /\ \E i \in 1..Len(lookup_table) :
           lookup_table[i] = Entry("a", 1, "int32", "x")

\* the serial peer has sent back all it received, and all of it is parsed
EchoDone ==
    /\ Len(stream) = Len(serial_out)
    /\ pc = "poll"

\* a message {"x": v} on topic a, once the bytes of the one before are back
broker_int32 ==
    \E v \in Int32Values : EchoDone /\ on_message("a", <<"obj", "x", v>>)

\* the serial peer sends back, byte by byte, what the bridge wrote
peer_echo ==
    /\ Len(Sent) < Len(serial_out)
    /\ peer_send(serial_out[Len(Sent) + 1])

\* both threads and a serial peer that echoes: every frame written comes back
NextInt32 ==
    \/ run_open
    \/ run_connect
    \/ on_connect
    \/ broker_int32
    \/ peer_echo
    \/ poll_read
    \/ parse_byte
    \/ poll_sleep

SpecInt32 == InitInt32 /\ [][NextInt32]_vars

Next ==
    \/ run_open
    \/ run_connect
    \/ on_connect
    \/ broker_few
    \/ poll_read
    \/ parse_byte
    \/ poll_sleep
    \/ peer_one_frame

Spec == Init /\ [][Next]_vars

\* ------------------------------------------------------------ properties

\* the read buffer once the byte parse_byte is about to parse is appended
Appended == Append(read_buffer, Head(data))

\* parse_byte is about to parse the fifth byte of a frame
FifthByte == waiting_header = 2 /\ Len(read_buffer) = FTMQ_PKT_LEN - 1

\* the entries of the table whose identifier is id, as indexes, in table order
Matching(id) == { i \in 1..Len(lookup_table) : lookup_table[i].id = id }

\* C1: once two sync bytes are counted, the byte that brings read_buffer to 5
\* bytes emits exactly one frame, identifier = buffer[0], payload =
\* buffer[1..5), and a parse_FTMQ that returns leaves waiting_header = 0 and
\* read_buffer empty; no other byte, and no other step, emits a frame.
C1_FrameAtFifthByte ==
    [][ IF parse_byte /\ FifthByte
        THEN /\ frames' = Append(frames, [id |-> Appended[1],
                                          payload |-> SubSeq(Appended, 2, 5)])
             /\ pc' # "crashed" => waiting_header' = 0 /\ read_buffer' = <<>>
        ELSE frames' = frames ]_vars

\* a frame was assembled and parse_FTMQ returned
C1_Witness ==
    /\ Len(stream) = 7
    /\ Len(frames) = 1
    /\ pc = "parse"
    /\ waiting_header = 0
    /\ read_buffer = <<>>

\* C2: while waiting_header = 2 a byte of any value, the sync byte included,
\* goes into read_buffer (and from there into the frame when it is the fifth)
\* and is not counted as a sync byte; so the 7 bytes 40 40 40 40 00 00 00 give
\* exactly one frame, identifier 0x40, payload [0x40, 0, 0, 0].
C2_NoFalseSplit ==
    /\ [][ parse_byte /\ waiting_header = 2 =>
             IF FifthByte
             THEN frames' = Append(frames, [id |-> Appended[1],
                                            payload |-> SubSeq(Appended, 2, 5)])
             ELSE read_buffer' = Appended /\ waiting_header' = 2 ]_vars
    /\ [](stream = << 64, 64, 64, 64, 0, 0, 0 >> =>
             frames = << [id |-> 64, payload |-> << 64, 0, 0, 0 >>] >>)

\* the 7 bytes 40 40 40 40 00 00 00 were parsed
C2_Witness ==
    /\ stream = << 64, 64, 64, 64, 0, 0, 0 >>
    /\ Len(frames) = 1

\* C10: a complete frame whose identifier is the id of no table entry causes
\* no publish and is consumed: waiting_header = 0 and read_buffer empty
\* afterwards, the loop running on.
C10_UnknownIdentifier ==
    [][ parse_byte /\ FifthByte /\ Matching(Appended[1]) = {} =>
          /\ published' = published
          /\ waiting_header' = 0
          /\ read_buffer' = <<>>
          /\ pc' = "parse" ]_vars

\* a frame of unknown identifier was parsed
C10_Witness ==
    /\ Len(frames) = 1
    /\ Matching(frames[1].id) = {}
    /\ published = <<>>
    /\ waiting_header = 0
    /\ read_buffer = <<>>

\* C3: garbage bytes (none the sync byte) followed by a valid 7 byte frame
\* 40 40 id p0 p1 p2 p3, parsed from the initial state, give exactly one
\* frame, (id, [p0..p3]), and leave waiting_header = 0 and read_buffer empty.
C3_SyncRecovery ==
    \A g \in 0..MaxGarbage :
        SyncPrefix(stream, g) /\ Len(stream) = g + 7 =>
            /\ frames = << [id |-> stream[g + 3],
                            payload |-> SubSeq(stream, g + 4, g + 7)] >>
            /\ waiting_header = 0
            /\ read_buffer = <<>>

\* the part of C3 the code keeps: the frame itself is found after any garbage
C3_FrameFound ==
    \A g \in 0..MaxGarbage :
        SyncPrefix(stream, g) /\ Len(stream) = g + 7 =>
            /\ frames = << [id |-> stream[g + 3],
                            payload |-> SubSeq(stream, g + 4, g + 7)] >>
            /\ pc # "crashed" => waiting_header = 0 /\ read_buffer = <<>>

\* the parser's state and output after the bytes of stream are a function
\* of stream: what one call on all of them gives
SplitIndependent ==
    ParserState(waiting_header, read_buffer, frames, published, pc = "crashed")
        = poll_all(InitialParser, stream)

\* the main thread has nothing more of the peer's bytes to parse
Drained == pc = "crashed" \/ (data = <<>> /\ serial_in = <<>>)

\* C4: the frames emitted and the parser's state depend only on the bytes, not
\* on how the reads split them; two valid frames back to back give exactly
\* these two frames, in order, fed a byte per read or all 14 in one read.
C4_PartialDelivery ==
    /\ SplitIndependent
    /\ Len(Sent) = 14 /\ Drained =>
           frames = << [id |-> Sent[3], payload |-> SubSeq(Sent, 4, 7)],
                       [id |-> Sent[10], payload |-> SubSeq(Sent, 11, 14)] >>

\* two frames were fed a byte per read
C4_BytewiseWitness ==
    /\ bytewise
    /\ Len(stream) = 14
    /\ Len(frames) = 2

\* C7: for a decoded frame parse_FTMQ publishes at most once, to the first
\* entry, in table order, whose id is the frame's identifier.
C7_FirstMatchWins ==
    [][ parse_byte /\ FifthByte =>
          \/ published' = published
          \/ /\ Matching(Appended[1]) # {}
             /\ Len(published') = Len(published) + 1
             /\ published'[Len(published')].topic =
                    lookup_table[CHOOSE i \in Matching(Appended[1]) :
                                     \A j \in Matching(Appended[1]) : i <= j].topic
      ]_vars

\* C9: a failure while translating a decoded frame (a matching entry whose
\* type is none of int32 / float / array) does not end the polling loop and
\* leaves the parser reset: the frame is skipped.
C9_FailureContained ==
    /\ pc # "crashed"
    /\ Len(read_buffer) < FTMQ_PKT_LEN

\* the table has an entry for topic: the first one, in table order
Known(topic) == \E i \in 1..Len(lookup_table) : lookup_table[i].topic = topic

EntryFor(topic) ==
    lookup_table[CHOOSE i \in 1..Len(lookup_table) :
                     /\ lookup_table[i].topic = topic
                     /\ \A j \in 1..(i - 1) : lookup_table[j].topic # topic]

\* the bytes the step appends to the serial output
Written == SubSeq(serial_out', Len(serial_out) + 1, Len(serial_out'))

\* value is a signed 32 bit integer
IsInt32(value) == IsInt(value) /\ value[2] \in -32768..32767

\* value is a list of exactly 4 integers 0..255
IsByteArray4(value) ==
    /\ IsList(value)
    /\ Len(value[2]) = 4
    /\ \A i \in 1..4 :
           IsInt(value[2][i]) /\ value[2][i][2] = 0 /\ value[2][i][3] \in 0..255

\* value is a number a float32 holds (the model's numbers all fit one)
IsNumber(value) == value[1] \in {"int", "float"}

\* the payload is a JSON object that has the key name
HasField(payload, name) == payload[1] = "obj" /\ payload[2] = name

\* the message translates: the payload has the entry's field and its value
\* converts to the entry's type
Translates(e, payload) ==
    /\ HasField(payload, e.name)
    /\ \/ e.type = "int32" /\ IsInt32(payload[3])
       \/ e.type = "float" /\ IsNumber(payload[3])
       \/ /\ e.type = "array"
          /\ IsList(payload[3])
          /\ Len(payload[3][2]) >= 4
          /\ \A i \in 1..4 : IsInt(payload[3][2][i]) /\ payload[3][2][i][2] = 0
                             /\ payload[3][2][i][3] \in 0..255

\* value is of the entry's type, int32 or array
OfType(e, payload) ==
    /\ HasField(payload, e.name)
    /\ \/ e.type = "int32" /\ IsInt32(payload[3])
       \/ e.type = "array" /\ IsByteArray4(payload[3])

\* the payload is one the claim C8 lists for the entry e
Untranslatable(e, payload) ==
    \/ ~HasField(payload, e.name)
    \/ e.type \in {"int32", "float", "array"} /\ ~Translates(e, payload)

\* C5: when on_message translates a message for an entry of identifier id
\* into the payload bytes p0..p3, it writes exactly 0x40, 0x40, id, p0, p1, p2,
\* p3 to the port: 7 bytes, in this order.
C5_EncoderLayout ==
    [][ \A topic \in MsgTopics : \A payload \in MsgPayloads :
          (on_message(topic, payload) /\ Known(topic)
             /\ Translates(EntryFor(topic), payload))
          => (LET e == EntryFor(topic)
                  p == encode(e.type, payload[3]).bytes
              IN  /\ Len(p) = 4
                  /\ Written = << 64, 64, e.id, p[1], p[2], p[3], p[4] >>)
      ]_vars

\* the message {"x": 1} for the int32 entry of identifier 1 was written
C5_Witness ==
    /\ msgs = 1
    /\ errors = {}
    /\ serial_out = start_FTMQ \o << 64, 64, 1, 1, 0, 0, 0 >>

\* C6: for every entry of type int32 or array and every value of that type,
\* the bytes on_message writes for {name: value}, parsed from the initial
\* parser state, give exactly one frame, whose translation publishes
\* {name: value} to the entry's topic.
C6_RoundTrip ==
    [][ \A topic \in MsgTopics : \A payload \in MsgPayloads :
          (on_message(topic, payload) /\ Known(topic)
             /\ OfType(EntryFor(topic), payload))
          => (LET back == poll_all(InitialParser, Written)
              IN  /\ Len(back.frames) = 1
                  /\ \E i \in 1..Len(back.published) :
                         back.published[i] = [topic |-> topic, payload |-> payload])
      ]_vars

\* the round trip of the values themselves: for an int32 or array entry
\* the frame written decodes, by the entry's own type, to the value sent
C6_ValueRoundTrip ==
    [][ \A topic \in MsgTopics : \A payload \in MsgPayloads :
          (on_message(topic, payload) /\ Known(topic)
             /\ OfType(EntryFor(topic), payload))
          => (/\ Len(Written) = 7
              /\ decode(EntryFor(topic).type, SubSeq(Written, 4, 7), Unbound)
                     = payload[3])
      ]_vars

\* C8: a message on a topic of the table whose payload is no JSON, lacks the
\* entry's field, or holds a value the entry's type cannot take (an int32 out
\* of range, an array with an element outside 0..255 or fewer than 4) is
\* dropped: on_message returns, nothing is written to the port, and the
\* callbacks go on running.
C8_TranslationErrorContained ==
    [][ \A topic \in MsgTopics : \A payload \in MsgPayloads :
          (on_message(topic, payload) /\ Known(topic)
             /\ Untranslatable(EntryFor(topic), payload))
          => (/\ serial_out' = serial_out
              /\ errors' = errors \cup {msgs'}
              /\ CallbacksRun')
      ]_vars

\* the first message was dropped with an error, the second one was written
C8_Witness ==
    /\ msgs = 2
    /\ errors = {1}
    /\ Len(serial_out) = 14

\* C11: a message on a topic that is no key of the lookup table writes nothing
\* to the port, whatever its payload; a message on a topic of the table writes
\* at most one frame, that of the topic's entry (no more than 7 bytes, which
\* begin 0x40, 0x40, id).
C11_UnknownTopic ==
    [][ \A topic \in MsgTopics : \A payload \in MsgPayloads :
          on_message(topic, payload) =>
              IF Known(topic)
              THEN /\ Len(Written) <= 7
                   /\ Written # <<>> =>
                          SubSeq(Written, 1, 3) = << 64, 64, EntryFor(topic).id >>
              ELSE serial_out' = serial_out /\ errors' = errors
      ]_vars

\* of two messages one was on an unknown topic and ignored without an error,
\* the other one was written
C11_Witness ==
    /\ msgs = 2
    /\ errors = {}
    /\ Len(serial_out) = 14

\* C12: whatever the interleaving of the client's thread with the polling
\* loop, and whatever on_message does with the message (writes a frame, ignores
\* the topic, fails to translate), the callbacks on_connect and on_message
\* leave waiting_header, read_buffer and the lookup table as they are; only
\* parse_FTMQ, called by the polling loop, changes the parser's state.
C12_ParserConfinement ==
    [][ /\ (on_connect \/ broker_few) =>
               UNCHANGED << waiting_header, read_buffer, topics_lookup >>
        /\ (waiting_header' # waiting_header \/ read_buffer' # read_buffer) =>
               parse_byte
        /\ topics_lookup' = topics_lookup
      ]_vars

\* two messages were handled, one dropped with an error and one written,
\* and the parser is in the middle of a frame
C12_Witness ==
    /\ msgs = 2
    /\ errors # {}
    /\ Len(serial_out) = 14
    /\ waiting_header = 2
    /\ Len(read_buffer) = 2
    /\ pc = "parse"

\* C13: the first 7 bytes written to the port are 40 40 00 00 00 00 00; they
\* are written once, by the step that opens the port, wholly before the client
\* is connected and its thread started, hence before any frame of a broker
\* message; a connect or reconnect of the broker writes nothing.
C13_StartupFrame ==
    /\ [](pc = "new" => /\ serial_out = <<>>
                        /\ client_thread = "none"
                        /\ msgs = 0
                        /\ connects = 0)
    /\ [](pc # "new" => IsPrefix(<< 64, 64, 0, 0, 0, 0, 0 >>, serial_out))
    /\ [][ /\ run_connect => serial_out = << 64, 64, 0, 0, 0, 0, 0 >>
           /\ on_connect => serial_out' = serial_out
           /\ pc' = "new" => pc = "new"
           /\ serial_out' # serial_out =>
                  IF pc = "new"
                  THEN serial_out' = << 64, 64, 0, 0, 0, 0, 0 >>
                  ELSE msgs' = msgs + 1 /\ pc' = pc
         ]_vars

\* the broker connected and reconnected, two messages were written, and the
\* startup frame is first and there once
C13_Witness ==
    /\ connects = 2
    /\ msgs = 2
    /\ Len(serial_out) = 21
    /\ SubSeq(serial_out, 1, 7) = << 64, 64, 0, 0, 0, 0, 0 >>
    /\ SubSeq(serial_out, 8, 14) # << 64, 64, 0, 0, 0, 0, 0 >>
    /\ SubSeq(serial_out, 15, 21) # << 64, 64, 0, 0, 0, 0, 0 >>

\* C14: in every reachable state waiting_header is 0, 1 or 2 and read_buffer
\* holds at most 5 bytes; between two calls of parse_FTMQ read_buffer holds at
\* most 4 bytes; and read_buffer holds bytes only when waiting_header = 2.
\* (The one state with 5 bytes is that of a call which raised and never
\* returned: there is no call after it.)
C14_ParserStateInvariant ==
    /\ waiting_header \in 0..2
    /\ Len(read_buffer) <= FTMQ_PKT_LEN
    /\ pc # "crashed" => Len(read_buffer) <= FTMQ_PKT_LEN - 1
    /\ read_buffer # <<>> => waiting_header = 2

\* between two calls, with 4 bytes of a frame buffered
C14_Witness ==
    /\ pc = "parse"
    /\ data # <<>>
    /\ waiting_header = 2
    /\ Len(read_buffer) = 4

\* the 4 bytes b are the little-endian two's complement form of the integer v
LittleEndianOf(b, v) ==
    /\ \A i \in 1..4 : b[i] \in 0..255
    /\ b[1] + 256 * b[2] = v[3]
    /\ b[3] + 256 * b[4] = v[2] % 65536
    /\ (v[2] < 0) <=> (b[4] >= 128)

\* the publish the step makes to topic, as a set (empty when it makes none)
PublishedTo(topic) ==
    { published'[i].payload : i \in { j \in (Len(published) + 1)..Len(published') :
                                          published'[j].topic = topic } }

\* C15: for the int32 entry, on_message writes every integer v of
\* [-2^31, 2^31 - 1] as the 4 bytes of its little-endian two's complement form
\* (-1 as FF FF FF FF), parse_FTMQ publishes any 4 payload bytes as the
\* little-endian signed 32 bit integer (FF FF FF FF as -1), and each undoes
\* the other.
C15_Int32Conversion ==
    [][ /\ \A v \in Int32Values :
               (on_message("a", <<"obj", "x", v>>) /\ IsInt32(v)) =>
                   /\ Len(Written) = 7
                   /\ LittleEndianOf(SubSeq(Written, 4, 7), v)
                   /\ struct_unpack_i(SubSeq(Written, 4, 7)) = v
                   /\ v = PyInt(-1, 65535) =>
                          SubSeq(Written, 4, 7) = << 255, 255, 255, 255 >>
        /\ (parse_byte /\ FifthByte /\ Appended[1] = 1) =>
               /\ Cardinality(PublishedTo("a")) = 1
               /\ LET p == CHOOSE q \in PublishedTo("a") : TRUE
                      w == p[3]
                  IN  /\ p = <<"obj", "x", w>>
                      /\ IsInt32(w)
                      /\ w[3] \in 0..65535
                      /\ LittleEndianOf(SubSeq(Appended, 2, 5), w)
                      /\ struct_pack_i(w) = Ok(SubSeq(Appended, 2, 5))
                      /\ SubSeq(Appended, 2, 5) = << 255, 255, 255, 255 >> =>
                             w = PyInt(-1, 65535)
      ]_vars

\* {"x": -1} went out as FF FF FF FF, came back and was published as -1
C15_Witness ==
    /\ Len(serial_out) >= 14
    /\ SubSeq(serial_out, 8, 14) = << 64, 64, 1, 255, 255, 255, 255 >>
    /\ Len(stream) = 14
    /\ \E i \in 1..Len(published) :
           published[i] = [topic |-> "a", payload |-> <<"obj", "x", PyInt(-1, 65535)>>]

\* C16: the sync bytes of a frame serve that frame only: every frame emitted
\* has consumed two sync bytes of its own, counted while waiting_header < 2,
\* and 5 buffered bytes, so n bytes give at most floor(n / 7) frames, and
\* 40 40 followed by 10 bytes that are not 0x40 give exactly one frame.
C16_SyncNotReused ==
    /\ [](7 * Len(frames)
            + (IF pc = "crashed" THEN 0 ELSE waiting_header + Len(read_buffer))
              <= Len(stream))
    /\ [](Len(frames) <= Len(stream) \div 7)
    /\ [](PlainPrefix(stream) /\ Len(stream) >= 12 => Len(frames) = 1)
    /\ [][ frames' # frames =>
               /\ waiting_header = 2
               /\ Len(read_buffer) = FTMQ_PKT_LEN - 1
               /\ pc' # "crashed" => waiting_header' = 0 /\ read_buffer' = <<>>
         ]_vars

\* 40 40 and 10 bytes that are not 0x40 were parsed: one frame, and the
\* bytes behind it dropped
C16_Witness ==
    /\ Len(stream) = 12
    /\ PlainPrefix(stream)
    /\ Len(frames) = 1
    /\ waiting_header = 0
    /\ read_buffer = <<>>

\* C17: while waiting_header < 2 a byte that is not 0x40 changes nothing of
\* the parser: read_buffer stays empty and waiting_header keeps its value, 1
\* included; so the two sync bytes need not be adjacent, and 40 XX 40 followed
\* by 5 bytes gives the frame of these 5 bytes.
C17_GapInHeader ==
    /\ [][ (parse_byte /\ waiting_header < 2 /\ Head(data) # HEADER_CHAR) =>
               /\ waiting_header' = waiting_header
               /\ read_buffer = <<>> /\ read_buffer' = <<>>
               /\ frames' = frames
               /\ published' = published
               /\ pc' = "parse"
         ]_vars
    /\ [](\A g0 \in 0..1 : \A g1 \in 0..MaxGap :
             (GapPrefix(stream, g0, g1) /\ Len(stream) = g0 + g1 + 7) =>
                 frames = << [id |-> stream[g0 + g1 + 3],
                              payload |-> SubSeq(stream, g0 + g1 + 4,
                                                 g0 + g1 + 7)] >>)

\* 40 XX 40 and 5 bytes were parsed, XX not 0x40: one frame
C17_Witness ==
    /\ Len(stream) = 8
    /\ stream[1] = HEADER_CHAR
    /\ stream[2] # HEADER_CHAR
    /\ stream[3] = HEADER_CHAR
    /\ frames = << [id |-> stream[4], payload |-> SubSeq(stream, 5, 8)] >>

\* the types parse_FTMQ and on_message have a branch for
KnownTypes == { "int32", "float", "array" }

\* C18: the bytes written to the port are at every moment complete 7 byte
\* frames, one after the other: start_FTMQ and every on_message, whatever the
\* entry's type string and the payload, write a whole frame or nothing, in
\* every interleaving of the two threads.  (A call is one step here: no state
\* lies inside a frame being written.)
C18_WellFramed ==
    /\ Len(serial_out) % 7 = 0
    /\ \A k \in 0..(Len(serial_out) \div 7 - 1) :
           serial_out[7 * k + 1] = HEADER_CHAR /\ serial_out[7 * k + 2] = HEADER_CHAR

\* the part of C18 the code keeps: with every entry of a known type the
\* output is well framed
C18_WellFramedKnownTypes ==
    (\A i \in 1..Len(lookup_table) : lookup_table[i].type \in KnownTypes)
        => C18_WellFramed

\* a step loses, doubles or reorders no byte: the peer's steps append one
\* byte to those sent, the others keep them, and stream grows only by the byte
\* parse_byte takes from the front of data
InOrderOnce ==
    /\ \/ Sent' = Sent
       \/ /\ stream' = stream
          /\ Len(Sent') = Len(Sent) + 1
          /\ SubSeq(Sent', 1, Len(Sent)) = Sent
    /\ stream' # stream => parse_byte /\ stream' = Append(stream, Head(data))

\* C19: with the polling loop scheduled fairly, every byte the port makes
\* available is passed to parse_FTMQ in the end, once and in the order of
\* arrival (the peer sending 14 bytes at most: again and again all it has sent
\* is parsed), so every complete valid frame that arrives with the parser in
\* its initial state is emitted in the end.
C19_EveryByteParsed ==
    /\ [][InOrderOnce]_vars
    /\ []<>(Len(stream) = Len(Sent))
    /\ (Len(Sent) >= 7) ~> (Len(frames) >= 1)
    /\ (Len(Sent) >= 14) ~> (Len(frames) >= 2)

\* the part of C19 the code keeps: no byte is lost, doubled or passed out of
\* order, every byte is passed in the end unless a call of parse_FTMQ has
\* raised, and the first frame is emitted
C19_ParsedUnlessCrashed ==
    /\ [][InOrderOnce]_vars
    /\ []<>(Len(stream) = Len(Sent) \/ pc = "crashed")
    /\ (Len(Sent) >= 7) ~> (Len(frames) >= 1)

====
